---- MODULE Spec2Model ----
(***************************************************************************)
(* convert-for-itunes: one run of convert_for_itunes.py as a state         *)
(* machine.  The main thread validates the arguments, creates the output  *)
(* directory, runs the album gain tool, submits one conversion job per    *)
(* source file to a thread pool and logs the job results as they complete.*)
(* The worker threads run the jobs: format detection, decode to a         *)
(* temporary wave file, encode with lame, tag copy.                       *)
(***************************************************************************)
EXTENDS Integers, Sequences, FiniteSets, TLC

\* ------------------------------------------------------------------ bounds
\* Largest number of SOURCE arguments of one run.
MaxFiles == 2

\* os.cpu_count() results that are tried; 0 stands for None (undetected).
CpuCounts == {0, 1, 2}

\* Names tempfile.NamedTemporaryFile may hand out: one per possible job, so a
\* free name always exists.
TmpNames == 1..MaxFiles

\* Largest number of fields in the metadata of a source file given to copy_tags.
MaxTags == 4

\* Largest number of files given to move_music_files.py.
MaxMusic == 2

\* copy_tags is run once or twice on one destination.
TagRunCounts == {1, 2}

\* -------------------------------------------------------- program constants
OGG_VORBIS_MIME_TYPE == "audio/vorbis"
FLAC_MIME_TYPE == "audio/flac"
MP3_MIME_TYPE == "audio/mp3"

SUPPORTED_MIME_TYPES == {OGG_VORBIS_MIME_TYPE, FLAC_MIME_TYPE, MP3_MIME_TYPE}

EXCLUDING_FILE_EXTENSIONS == {".log", ".pdf", ".txt", ".jpg", ".png"}

\* ------------------------------------------------------------ the file system
\* A path is its directory, the stem of its basename and its extension.
Path(d, s, e) == [dir |-> d, stem |-> s, ext |-> e]

NoPath == Path("", "", "")

\* The paths a run may be given.
Paths ==
  { Path("/x", "a", ".flac"), Path("/y", "a", ".ogg"),
    Path("/x", "b", ".mp3"), Path("/x", "n", ".TXT") }

\* What is at a path: nothing, a file mutagen recognises as one of the three
\* supported types, or some other file.
Kinds == SUPPORTED_MIME_TYPES \cup {"missing", "other"}

\* str.lower() on the extensions of Paths.
Lower(e) ==
  CASE e = ".TXT" -> ".txt"
    [] OTHER -> e

OUTPUT_DIRECTORY == "/out"

VARIABLES
  args,            \* arguments.source_files
  fs,              \* Paths -> Kinds: the content at each path
  cpu_count,       \* os.cpu_count(), 0 for None
  output,          \* what is at the output path: "absent", "file" or "dir"
  pc,              \* position of the main thread
  source_files,    \* filter_paths(arguments.source_files)
  log,             \* records written through logging, in order
  exit_status,     \* -1 while running, else the process exit status
  uncaught,        \* class of the exception that left main(), or "none"
  makedirs_calls,  \* number of os.makedirs(output_directory) calls
  gain_calls,      \* subprocess.run calls of the gain functions, in order
  gain_running,    \* a gain tool process is alive
  gained,          \* source paths a gain tool has rewritten in place
  max_workers,     \* size of the ThreadPoolExecutor, 0 before it exists
  jobs,            \* job index -> [pc, tmp, result, cause, yielded]
  tmp_files,       \* TmpNames -> 0 (no such file) or the job that wrote it
  mp3_files        \* stem -> state of <output_directory>/<stem>.mp3

vars ==
  << args, fs, cpu_count, output, pc, source_files, log, exit_status, uncaught,
     makedirs_calls, gain_calls, gain_running, gained, max_workers, jobs,
     tmp_files, mp3_files >>

Stems == { p.stem : p \in Paths }

\* copy_tags on its own: one source file's metadata and one destination.
VARIABLES
  metadata,        \* mutagen.File(source_file_path): field -> value
  dest_tags,       \* the ID3 frames in the destination MP3 file: key -> frame
  tag_runs,        \* number of copy_tags calls made so far
  prior_tags,      \* dest_tags as they were before the first copy_tags call
  first_tags       \* dest_tags as the first copy_tags call left them

tag_vars == << metadata, dest_tags, tag_runs, prior_tags, first_tags >>

\* move_music_files.py: one run of its main.
VARIABLES
  musics,            \* arguments.musics: the music paths given
  music_kinds,       \* what each given path holds: "music", "excluded", "unloadable"
  new_paths,         \* get_output_path of each given path
  is_dry_run_mode,   \* arguments.dry_run
  move_output,       \* arguments.output_directory: "absent", "file" or "dir"
  old_files,         \* the new paths at which a file existed before the run
  music_files,       \* the list load_files returned
  src_files,         \* which of the given paths exist
  dst_files,         \* what each new path holds: 0 nothing, -1 the file that was
                     \* there before the run, s a copy of the given path s
  move_pc,           \* position of main
  move_i,            \* index of the loop in move_music_files
  move_error,        \* the error main logged or died of, "none" if none
  move_exit          \* exit status of the process, -1 while it runs

move_vars == << musics, music_kinds, new_paths, is_dry_run_mode, move_output, old_files,
                music_files, src_files, dst_files, move_pc, move_i, move_error, move_exit >>

\* The paths that may be given to move_music_files.py.
MusicPaths == 1..MaxMusic

\* The paths get_output_path may give.
NewPaths == { "/lib/Artist/Album/01 One.ogg", "/lib/Artist/Album/02 Two.ogg" }

\* ------------------------------------------------------------ pure functions
\* os.path.splitext(path)[1].lower() not in EXCLUDING_FILE_EXTENSIONS
filter_paths(all_paths) ==
  SelectSeq(all_paths, LAMBDA p : Lower(p.ext) \notin EXCLUDING_FILE_EXTENSIONS)

\* Mutant of exists_all_files: the loop returns after its first path.
exists_all_files_FirstOnly(all_files) ==
  Len(all_files) = 0 \/ fs[all_files[1]] # "missing"

exists_all_files(all_files) ==
  \A i \in 1..Len(all_files) : fs[all_files[i]] # "missing"

get_mp3_file_path(source_file, output_directory) ==
  Path(output_directory, source_file.stem, ".mp3")

\* Mutant of get_mime_type: the loop variable is returned after the loop, so a
\* file of no supported type is reported as the last type of the tuple.
get_mime_type_LastType(source_file) ==
  IF fs[source_file] \in SUPPORTED_MIME_TYPES THEN fs[source_file] ELSE MP3_MIME_TYPE

get_mime_type(source_file) ==
  IF fs[source_file] \in SUPPORTED_MIME_TYPES THEN fs[source_file] ELSE "None"

\* A ConversionFailedException (or no exception) as a value.
Raised(cause, path) == [raised |-> TRUE, cause |-> cause, path |-> path, mime |-> "None"]

Returned(mime_type) == [raised |-> FALSE, cause |-> "", path |-> NoPath, mime |-> mime_type]

\* The loop of get_all_mime_type from index i on.
RECURSIVE get_all_mime_type_loop(_, _, _, _)
get_all_mime_type_loop(all_source_files, i, is_first, mime_type) ==
  IF i > Len(all_source_files) THEN Returned(mime_type)
  ELSE LET source_file == all_source_files[i]
           current_mime_type == get_mime_type(source_file)
       IN  IF current_mime_type = "None"
             THEN Raised("The format of {} is unsupported.", source_file)
           ELSE IF is_first
             THEN get_all_mime_type_loop(all_source_files, i + 1, FALSE, current_mime_type)
           ELSE IF mime_type # current_mime_type
             THEN Raised("The format of {} is different.", source_file)
           ELSE get_all_mime_type_loop(all_source_files, i + 1, FALSE, mime_type)

\* Mutant of get_all_mime_type: the comparison with the first file's type is
\* left out.
get_all_mime_type_NoCompare(all_source_files) ==
  LET unsupported == { i \in 1..Len(all_source_files) :
                         get_mime_type(all_source_files[i]) = "None" }
  IN  IF unsupported # {}
        THEN Raised("The format of {} is unsupported.",
                    all_source_files[CHOOSE i \in unsupported : \A k \in unsupported : i <= k])
        ELSE Returned(get_mime_type(all_source_files[1]))

get_all_mime_type(all_source_files) ==
  get_all_mime_type_loop(all_source_files, 1, TRUE, "None")

\* MIME_TYPE_TO_GAIN_CALCULATION_FUNCTION: the executable each gain function
\* looks up and the options it passes before the file list.
GainTool(mime_type) ==
  CASE mime_type = OGG_VORBIS_MIME_TYPE -> [tool |-> "vorbisgain", flags |-> <<"-a">>]
    [] mime_type = FLAC_MIME_TYPE -> [tool |-> "metaflac", flags |-> <<"--add-replay-gain">>]
    [] mime_type = MP3_MIME_TYPE -> [tool |-> "aacgain", flags |-> <<"-r", "-a">>]

\* Mutant of GainCall: only the first file is passed to the tool.
GainCall_FirstFileOnly(mime_type, all_source_files, found) ==
  [ tool |-> GainTool(mime_type).tool, flags |-> GainTool(mime_type).flags,
    files |-> << all_source_files[1] >>, found |-> found ]

\* The subprocess.run call of the gain function calculate_gain dispatches to;
\* found says whether shutil.which resolved the executable.
GainCall(mime_type, all_source_files, found) ==
  [ tool |-> GainTool(mime_type).tool, flags |-> GainTool(mime_type).flags,
    files |-> all_source_files, found |-> found ]

\* Mutant of get_max_workers: twice the processor count.
get_max_workers_Doubled(cpus) ==
  IF cpus # 0 THEN 2 * cpus ELSE 1

get_max_workers(cpus) ==
  IF cpus # 0 THEN cpus ELSE 1

\* --------------------------------------------------------------------- logging
LogRecord(level, msg, path, cause) ==
  [level |-> level, msg |-> msg, path |-> path, cause |-> cause]

\* ------------------------------------------------------------------------ Init
\* Argument lists: nargs='+' gives at least one SOURCE; the lists tried name
\* each path once.
ArgLists ==
  { a \in UNION { [1..n -> Paths] : n \in 1..MaxFiles } :
      \A i, k \in DOMAIN a : i # k => a[i] # a[k] }

Range(f) == { f[i] : i \in DOMAIN f }

\* No frame, no field.
Empty == << >>

\* copy_tags is not under study.
TagsIdle ==
  /\ metadata = Empty
  /\ dest_tags = Empty
  /\ tag_runs = 0
  /\ prior_tags = Empty
  /\ first_tags = Empty

\* move_music_files.py is not under study.
MoveIdle ==
  /\ musics = << >>
  /\ music_kinds = << >>
  /\ new_paths = << >>
  /\ is_dry_run_mode = FALSE
  /\ move_output = "absent"
  /\ old_files = {}
  /\ music_files = << >>
  /\ src_files = << >>
  /\ dst_files = [d \in NewPaths |-> 0]
  /\ move_pc = "idle"
  /\ move_i = 0
  /\ move_error = "none"
  /\ move_exit = -1

Init ==
  /\ TagsIdle
  /\ MoveIdle
  /\ args \in ArgLists
  /\ fs \in [Paths -> Kinds]
  /\ \A p \in Paths \ Range(args) : fs[p] = "missing"
  \* the content of a path the filter drops is never read
  /\ \A p \in Range(args) \ Range(filter_paths(args)) : fs[p] \in {"missing", "other"}
  /\ cpu_count \in CpuCounts
  /\ output \in {"absent", "file", "dir"}
  /\ pc = "filter"
  /\ source_files = << >>
  /\ log = << >>
  /\ exit_status = -1
  /\ uncaught = "none"
  /\ makedirs_calls = 0
  /\ gain_calls = << >>
  /\ gain_running = FALSE
  /\ gained = {}
  /\ max_workers = 0
  /\ jobs = << >>
  /\ tmp_files = [t \in TmpNames |-> 0]
  /\ mp3_files = [s \in Stems |-> "absent"]

\* ----------------------------------------------------------------- main thread
\* main, lines 364-368: filter the arguments, then check that what is left
\* exists.
Validate ==
  /\ pc = "filter"
  /\ source_files' = filter_paths(args)
  /\ IF Len(source_files') = 0 \/ ~exists_all_files(source_files')
       THEN /\ log' = Append(log, LogRecord("ERROR", "The source files are not found.", NoPath, ""))
            /\ pc' = "aborted"
            /\ exit_status' = 1
       ELSE /\ pc' = "check_output"
            /\ UNCHANGED << log, exit_status >>
  /\ UNCHANGED << args, fs, cpu_count, output, uncaught, makedirs_calls, gain_calls,
                  gain_running, gained, max_workers, jobs, tmp_files, mp3_files >>
  /\ UNCHANGED << tag_vars, move_vars >>

\* main, lines 370-375.
CheckOutputDirectory ==
  /\ pc = "check_output"
  /\ IF output = "file"
       THEN /\ log' = Append(log, LogRecord("ERROR", "The output directory is a file.", NoPath, ""))
            /\ pc' = "aborted"
            /\ exit_status' = 1
       ELSE /\ pc' = "makedirs"
            /\ UNCHANGED << log, exit_status >>
  /\ UNCHANGED << args, fs, cpu_count, output, source_files, uncaught, makedirs_calls,
                  gain_calls, gain_running, gained, max_workers, jobs, tmp_files, mp3_files >>
  /\ UNCHANGED << tag_vars, move_vars >>

\* convert_for_itunes, lines 315-317.
MakeDirs ==
  /\ pc = "makedirs"
  /\ output' = "dir"
  /\ makedirs_calls' = makedirs_calls + 1
  /\ log' = Append(log, LogRecord("INFO", "Gain calculation.", NoPath, ""))
  /\ pc' = "gain"
  /\ UNCHANGED << args, fs, cpu_count, source_files, exit_status, uncaught, gain_calls,
                  gain_running, gained, max_workers, jobs, tmp_files, mp3_files >>
  /\ UNCHANGED << tag_vars, move_vars >>

\* main, lines 379-380: a ConversionFailedException that left
\* convert_for_itunes is logged and main returns.
CaughtInMain(e) ==
  /\ log' = Append(log, LogRecord("ERROR", e.cause, e.path, ""))
  /\ pc' = "aborted"
  /\ exit_status' = 0
  /\ uncaught' = "none"

\* Any other exception leaves main: the interpreter exits with status 1.
LeavesMain(class, at) ==
  /\ pc' = at
  /\ exit_status' = 1
  /\ uncaught' = class
  /\ UNCHANGED log

\* calculate_gain, lines 121-127, up to the start of the gain tool.
CalculateGain ==
  /\ pc = "gain"
  /\ LET r == get_all_mime_type(source_files)
     IN  IF r.raised
           THEN CaughtInMain(r) /\ UNCHANGED << gain_calls, gain_running >>
         ELSE IF r.mime \notin SUPPORTED_MIME_TYPES
           THEN /\ CaughtInMain(Raised("The files are an unsupported format.", NoPath))
                /\ UNCHANGED << gain_calls, gain_running >>
         ELSE \E found \in BOOLEAN :
                /\ gain_calls' = Append(gain_calls, GainCall(r.mime, source_files, found))
                /\ IF found
                     THEN /\ gain_running' = TRUE
                          /\ pc' = "gain_wait"
                          /\ UNCHANGED << log, exit_status, uncaught >>
                     ELSE /\ LeavesMain("TypeError", "aborted")
                          /\ UNCHANGED gain_running
  /\ UNCHANGED << args, fs, cpu_count, output, source_files, makedirs_calls, gained,
                  max_workers, jobs, tmp_files, mp3_files >>
  /\ UNCHANGED << tag_vars, move_vars >>

\* The gain tool exits: subprocess.run(check=True) returns or raises
\* CalledProcessError, lines 89-111.
GainExit ==
  /\ pc = "gain_wait"
  /\ gain_running' = FALSE
  /\ \E returncode \in {0, 1} :
       IF returncode = 0
         THEN /\ gained' = Range(source_files)
              /\ pc' = "submit"
              /\ UNCHANGED << log, exit_status, uncaught >>
         ELSE /\ CaughtInMain(Raised("Calculating gain is failed.", NoPath))
              /\ UNCHANGED gained
  /\ UNCHANGED << args, fs, cpu_count, output, source_files, makedirs_calls, gain_calls,
                  max_workers, jobs, tmp_files, mp3_files >>
  /\ UNCHANGED << tag_vars, move_vars >>

NewJob == [pc |-> "queued", tmp |-> 0, result |-> "none", cause |-> "", yielded |-> FALSE]

\* convert_for_itunes, lines 320-327: the pool is created and every source
\* file is submitted.
SubmitJobs ==
  /\ log' = Append(log, LogRecord("INFO", "Convert to MP3 for iTunes.", NoPath, ""))
  /\ max_workers' = get_max_workers(cpu_count)
  /\ jobs' = [j \in 1..Len(source_files) |-> NewJob]
  /\ pc' = "collect"
  /\ UNCHANGED << args, fs, cpu_count, output, source_files, exit_status, uncaught,
                  makedirs_calls, gain_calls, gain_running, gained, tmp_files, mp3_files >>
  /\ UNCHANGED << tag_vars, move_vars >>

\* Mutant of Submit: the jobs are submitted without waiting for the gain tool.
Submit_DuringGain ==
  /\ pc \in {"gain_wait", "submit"}
  /\ SubmitJobs

\* The main thread reaches line 320 once calculate_gain has returned.
Submit ==
  /\ pc = "submit"
  /\ SubmitJobs

\* --------------------------------------------------------------- worker threads
JobIds == DOMAIN jobs

\* A worker thread is inside run_converting_task for job j.
Running(j) == jobs[j].pc \in {"decode", "encode", "tag"}

RunningJobs == { j \in JobIds : Running(j) }

\* The job has obtained its temporary name and has not yet left the transcoder.
HoldsTmp(j) == jobs[j].pc \in {"decode", "encode"} /\ jobs[j].tmp # 0

\* ThreadPoolExecutor(max_workers=n): a queued job is taken, in submission
\* order, only by one of the n worker threads that is idle.
WorkerIdle ==
  Cardinality(RunningJobs) < max_workers

Min(S) == CHOOSE x \in S : \A y \in S : x <= y

\* tempfile.NamedTemporaryFile() followed by close(), lines 218-220 and 241-243:
\* the file is created under a name no file has and deleted again, so the name
\* is one that is free now.  Names no running job holds are interchangeable:
\* the least of them stands for all.
TemporaryNames(j) ==
  LET free == { t \in TmpNames : tmp_files[t] = 0 }
      held == { jobs[k].tmp : k \in { k \in JobIds : k # j /\ HoldsTmp(k) } }
  IN  (free \cap held) \cup {Min(free \ held)}

\* MIME_TYPE_TO_CONVERSION_FUNCTION: formats decoded to a wave file first.
DecodedFormats == {OGG_VORBIS_MIME_TYPE, FLAC_MIME_TYPE}

DecodeFailedCause(mime_type) ==
  CASE mime_type = OGG_VORBIS_MIME_TYPE -> "Conversion from Ogg Vorbis to wave is failed."
    [] mime_type = FLAC_MIME_TYPE -> "Conversion from Flac to wave is failed."

\* Mutant of os_remove: the temporary file is left where it is.
os_remove_Skipped(files, wave_file_path) ==
  files

\* os.remove(wave_file_path)
os_remove(files, wave_file_path) ==
  [files EXCEPT ![wave_file_path] = 0]

\* The job ends: its future holds the result or the exception, and the
\* transcoder's wave_file_path is gone with its frame.
Ended(j, result, cause) ==
  [jobs EXCEPT ![j].pc = "done", ![j].tmp = 0, ![j].result = result, ![j].cause = cause]

\* run_converting_task up to the first external tool, lines 308-311, 291-299
\* and 218-222 / 241-245.
StartJob(j) ==
  /\ jobs[j].pc = "queued"
  /\ \A k \in JobIds : k < j => jobs[k].pc # "queued"
  /\ WorkerIdle
  /\ LET mime_type == get_mime_type(source_files[j])
     IN  IF mime_type = MP3_MIME_TYPE
           THEN jobs' = [jobs EXCEPT ![j].pc = "encode"]
         ELSE IF mime_type \in DecodedFormats
           THEN \E t \in TemporaryNames(j) :
                  jobs' = [jobs EXCEPT ![j].pc = "decode", ![j].tmp = t]
         \* line 298: '{} ...' % (path) raises TypeError
         ELSE jobs' = Ended(j, "TypeError", "")
  /\ UNCHANGED << args, fs, cpu_count, output, pc, source_files, log, exit_status,
                  uncaught, makedirs_calls, gain_calls, gain_running, gained,
                  max_workers, tmp_files, mp3_files >>
  /\ UNCHANGED << tag_vars, move_vars >>

\* The decoder (ogg123 or flac) of job j, lines 222-230 and 245-259.
\*   missing:     shutil.which gave None, subprocess.run raises TypeError
\*   ok:          exit status 0, the wave file is written
\*   fail_file:   exit status # 0, a wave file was left behind
\*   fail_nofile: exit status # 0, no wave file was written
Decode(j) ==
  /\ jobs[j].pc = "decode"
  /\ LET t == jobs[j].tmp
         mime_type == get_mime_type(source_files[j])
     IN  \E outcome \in {"missing", "ok", "fail_file", "fail_nofile"} :
           CASE outcome = "missing" ->
                  /\ jobs' = Ended(j, "TypeError", "")
                  /\ UNCHANGED tmp_files
             [] outcome = "ok" ->
                  /\ tmp_files' = [tmp_files EXCEPT ![t] = j]
                  /\ jobs' = [jobs EXCEPT ![j].pc = "encode"]
             [] outcome = "fail_file" ->
                  /\ tmp_files' = os_remove([tmp_files EXCEPT ![t] = j], t)
                  /\ jobs' = Ended(j, "ConversionFailedException", DecodeFailedCause(mime_type))
             [] outcome = "fail_nofile" ->
                  IF tmp_files[t] = 0
                    \* os.remove raises FileNotFoundError in the except clause
                    THEN /\ jobs' = Ended(j, "FileNotFoundError", "")
                         /\ UNCHANGED tmp_files
                    ELSE /\ tmp_files' = os_remove(tmp_files, t)
                         /\ jobs' = Ended(j, "ConversionFailedException",
                                          DecodeFailedCause(mime_type))
  /\ UNCHANGED << args, fs, cpu_count, output, pc, source_files, log, exit_status,
                  uncaught, makedirs_calls, gain_calls, gain_running, gained,
                  max_workers, mp3_files >>
  /\ UNCHANGED << tag_vars, move_vars >>

\* lame, and for a decoded format the finally clause that follows it:
\* convert_wave_to_mp3 with lines 232-235 / 261-264, or convert_mp3_to_mp3.
\*   missing:      shutil.which gave None, subprocess.run raises TypeError
\*   ok:           exit status 0, the MP3 file is written
\*   fail:         exit status # 0, the destination is as it was
\*   fail_partial: exit status # 0, a partial MP3 file is left
Encode(j) ==
  /\ jobs[j].pc = "encode"
  /\ LET t == jobs[j].tmp
         decoded == get_mime_type(source_files[j]) \in DecodedFormats
         dest == get_mp3_file_path(source_files[j], OUTPUT_DIRECTORY).stem
         \* the wave file lame is to read is there
         readable == IF decoded THEN tmp_files[t] # 0 ELSE TRUE
     IN  \E outcome \in {"missing", "ok", "fail", "fail_partial"} :
           /\ outcome = "ok" => readable
           /\ mp3_files' =
                CASE outcome = "ok" -> [mp3_files EXCEPT ![dest] = "untagged"]
                  [] outcome = "fail_partial" -> [mp3_files EXCEPT ![dest] = "partial"]
                  [] OTHER -> mp3_files
           /\ tmp_files' = IF decoded THEN os_remove(tmp_files, t) ELSE tmp_files
           /\ jobs' =
                IF decoded /\ tmp_files[t] = 0
                  \* os.remove raises FileNotFoundError in the finally clause
                  THEN Ended(j, "FileNotFoundError", "")
                ELSE IF outcome = "missing"
                  THEN Ended(j, "TypeError", "")
                ELSE IF outcome \in {"fail", "fail_partial"}
                  THEN Ended(j, "ConversionFailedException",
                             "Conversion from wave to MP3 is failed.")
                ELSE IF decoded
                  THEN [jobs EXCEPT ![j].pc = "tag", ![j].tmp = 0]
                ELSE Ended(j, "ok", "")
  /\ UNCHANGED << args, fs, cpu_count, output, pc, source_files, log, exit_status,
                  uncaught, makedirs_calls, gain_calls, gain_running, gained, max_workers >>
  /\ UNCHANGED << tag_vars, move_vars >>

\* copy_tags(source, mp3), lines 237 and 266: the frames are built and
\* id3.save writes them, or raises.
Tag(j) ==
  /\ jobs[j].pc = "tag"
  /\ LET dest == get_mp3_file_path(source_files[j], OUTPUT_DIRECTORY).stem
     IN  \E saved \in BOOLEAN :
           IF saved
             THEN /\ mp3_files' = [mp3_files EXCEPT ![dest] = "tagged"]
                  /\ jobs' = Ended(j, "ok", "")
             ELSE /\ jobs' = Ended(j, "MutagenError", "")
                  /\ UNCHANGED mp3_files
  /\ UNCHANGED << args, fs, cpu_count, output, pc, source_files, log, exit_status,
                  uncaught, makedirs_calls, gain_calls, gain_running, gained,
                  max_workers, tmp_files >>
  /\ UNCHANGED << tag_vars, move_vars >>

\* ------------------------------------------------- main thread: the results
\* as_completed yields the future of job j; lines 329-337.
Collect(j) ==
  /\ pc = "collect"
  /\ jobs[j].pc = "done"
  /\ ~jobs[j].yielded
  /\ jobs' = [jobs EXCEPT ![j].yielded = TRUE]
  /\ CASE jobs[j].result = "ok" ->
            /\ log' = Append(log, LogRecord("INFO", "%s is converted.", source_files[j], ""))
            /\ UNCHANGED << pc, uncaught >>
       [] jobs[j].result = "ConversionFailedException" ->
            /\ log' = Append(log, LogRecord("ERROR", "%s cannot be converted: %s",
                                            source_files[j], jobs[j].cause))
            /\ UNCHANGED << pc, uncaught >>
       [] OTHER ->
            \* future.result() raises it out of the loop
            /\ pc' = "shutdown"
            /\ uncaught' = jobs[j].result
            /\ UNCHANGED log
  /\ UNCHANGED << args, fs, cpu_count, output, source_files, exit_status, makedirs_calls,
                  gain_calls, gain_running, gained, max_workers, tmp_files, mp3_files >>
  /\ UNCHANGED << tag_vars, move_vars >>

\* Every future has been yielded: the with block ends and main returns.
Finish ==
  /\ pc = "collect"
  /\ \A j \in JobIds : jobs[j].yielded
  /\ pc' = "done"
  /\ exit_status' = 0
  /\ UNCHANGED << args, fs, cpu_count, output, source_files, log, uncaught, makedirs_calls,
                  gain_calls, gain_running, gained, max_workers, jobs, tmp_files, mp3_files >>
  /\ UNCHANGED << tag_vars, move_vars >>

\* An exception is leaving the with block: the executor's __exit__ waits for
\* every submitted job, then the exception leaves convert_for_itunes and main.
Shutdown ==
  /\ pc = "shutdown"
  /\ \A j \in JobIds : jobs[j].pc = "done"
  /\ pc' = "crashed"
  /\ exit_status' = 1
  /\ UNCHANGED << args, fs, cpu_count, output, source_files, log, uncaught, makedirs_calls,
                  gain_calls, gain_running, gained, max_workers, jobs, tmp_files, mp3_files >>
  /\ UNCHANGED << tag_vars, move_vars >>

Next ==
  \/ Validate
  \/ CheckOutputDirectory
  \/ MakeDirs
  \/ CalculateGain
  \/ GainExit
  \/ Submit
  \/ \E j \in JobIds : StartJob(j)
  \/ \E j \in JobIds : Decode(j)
  \/ \E j \in JobIds : Encode(j)
  \/ \E j \in JobIds : Tag(j)
  \/ \E j \in JobIds : Collect(j)
  \/ Finish
  \/ Shutdown

all_vars == << vars, tag_vars, move_vars >>

Spec == Init /\ [][Next]_all_vars

\* The main thread and the worker threads keep running and every external
\* tool that was started exits: a step that stays possible is taken.
FairSpec == Spec /\ WF_all_vars(Next)

\* ------------------------------------------------------------------ copy_tags
\* The fields copy_tags looks for in the source file.
Fields ==
  { "title", "album", "artist", "album artist", "albumartist", "genre", "date",
    "tracknumber", "track", "tracknum", "tracktotal", "discnumber", "disctotal",
    "isrc", "comment", "description", "itunes_cddb_1" }

\* Field values, as strings of characters.
TagValues ==
  { << "S", "o", "n", "g" >>, << "3", "/", "1", "2" >> }

Frame_FirstCharacter(encoding, text, lang) ==
  [encoding |-> encoding, text |-> SubSeq(text, 1, 1), lang |-> lang]

\* A frame as mutagen keeps it; lang is set for COMM only.
Frame(encoding, text, lang) ==
  [encoding |-> encoding, text |-> text, lang |-> lang]

\* The if statements of copy_tags, lines 137-196, in order: the field tested,
\* the HashKey of the frame added, its encoding and language, and the field
\* whose presence skips the statement (the elif at 182).
Rule(field, key, encoding, lang, unless) ==
  [field |-> field, key |-> key, encoding |-> encoding, lang |-> lang, unless |-> unless]

TagRules ==
  << Rule("title", "TIT2", "UTF8", "", ""),
     Rule("album", "TALB", "UTF8", "", ""),
     Rule("artist", "TPE1", "UTF8", "", ""),
     Rule("album artist", "TPE2", "UTF8", "", ""),
     Rule("albumartist", "TPE2", "UTF8", "", ""),
     Rule("genre", "TCON", "UTF8", "", ""),
     Rule("date", "TDRC", "LATIN1", "", ""),
     Rule("tracknumber", "TRCK", "LATIN1", "", ""),
     Rule("track", "TXXX:TRACK", "UTF8", "", ""),
     Rule("tracknum", "TXXX:TRACKNUM", "UTF8", "", ""),
     Rule("tracktotal", "TXXX:TRACKTOTAL", "UTF8", "", ""),
     Rule("discnumber", "TPOS", "LATIN1", "", ""),
     Rule("disctotal", "TXXX:DISCTOTAL", "UTF8", "", ""),
     Rule("isrc", "TSRC", "UTF8", "", ""),
     Rule("comment", "COMM::eng", "UTF8", "eng", ""),
     Rule("description", "COMM::eng", "UTF8", "eng", "comment"),
     Rule("description", "TXXX:DESCRIPTION", "UTF8", "", ""),
     Rule("itunes_cddb_1", "TXXX:ITUNES_CDDB_1", "UTF8", "", "") >>

\* id3.add(frame): the frame takes the place of any frame with its HashKey.
id3_add(id3, key, frame) ==
  [k \in DOMAIN id3 \cup {key} |-> IF k = key THEN frame ELSE id3[k]]

new_id3_FromFile(destination) ==
  destination

\* mutagen.id3.ID3(), line 132: a tag with no frame, whatever the destination
\* file holds.
new_id3(destination) ==
  Empty

\* The statements of copy_tags from the i-th on, applied to id3.
RECURSIVE build_frames(_, _, _)
build_frames(file_type, id3, i) ==
  IF i > Len(TagRules) THEN id3
  ELSE LET r == TagRules[i]
       IN  IF r.field \in DOMAIN file_type /\ r.unless \notin DOMAIN file_type
             THEN build_frames(file_type,
                               id3_add(id3, r.key, Frame(r.encoding, file_type[r.field], r.lang)),
                               i + 1)
             ELSE build_frames(file_type, id3, i + 1)

\* copy_tags, lines 130-198: the frames id3.save writes in place of the
\* destination's tag.
copy_tags(file_type, destination) ==
  build_frames(file_type, new_id3(destination), 1)

\* Tags a destination file may hold before copy_tags: none, or frames left by
\* another file.
OldTags ==
  [k \in {"TIT2", "TXXX:OLD"} |-> Frame("UTF8", << "O", "l", "d" >>, "")]

\* Everything of the conversion run is at rest.
ConversionIdle ==
  /\ args = << >>
  /\ fs = [p \in Paths |-> "missing"]
  /\ cpu_count = 0
  /\ output = "absent"
  /\ pc = "idle"
  /\ source_files = << >>
  /\ log = << >>
  /\ exit_status = -1
  /\ uncaught = "none"
  /\ makedirs_calls = 0
  /\ gain_calls = << >>
  /\ gain_running = FALSE
  /\ gained = {}
  /\ max_workers = 0
  /\ jobs = << >>
  /\ tmp_files = [t \in TmpNames |-> 0]
  /\ mp3_files = [s \in Stems |-> "absent"]

TagInit ==
  /\ ConversionIdle
  /\ MoveIdle
  /\ metadata \in UNION { [F -> TagValues] :
                            F \in { S \in SUBSET Fields : Cardinality(S) <= MaxTags } }
  /\ dest_tags \in {Empty, OldTags}
  /\ tag_runs = 0
  /\ prior_tags = dest_tags
  /\ first_tags = Empty

\* One call copy_tags(source_file_path, mp3_file_path).
CopyTags ==
  /\ tag_runs + 1 \in TagRunCounts
  /\ dest_tags' = copy_tags(metadata, dest_tags)
  /\ tag_runs' = tag_runs + 1
  /\ first_tags' = IF tag_runs = 0 THEN dest_tags' ELSE first_tags
  /\ UNCHANGED << metadata, prior_tags >>
  /\ UNCHANGED << vars, move_vars >>

TagNext ==
  CopyTags

TagSpec == TagInit /\ [][TagNext]_all_vars

\* ------------------------------------------------------- move_music_files.py
\* load_files, lines 178-190, from the i-th path on: excluded paths are
\* skipped, a path that cannot be loaded raises FileLoadingError.
RECURSIVE load_files_loop(_, _, _, _)
load_files_loop(music_paths, kinds, i, loaded) ==
  IF i > Len(music_paths) THEN [raised |-> FALSE, files |-> loaded]
  ELSE IF kinds[music_paths[i]] = "excluded"
    THEN load_files_loop(music_paths, kinds, i + 1, loaded)
  ELSE IF kinds[music_paths[i]] = "unloadable"
    THEN [raised |-> TRUE, files |-> << >>]
  ELSE load_files_loop(music_paths, kinds, i + 1, Append(loaded, music_paths[i]))

load_files(music_paths, kinds) ==
  load_files_loop(music_paths, kinds, 1, << >>)

os_path_exists_Never(files, path) ==
  FALSE

\* os.path.exists(new_path), line 240.
os_path_exists(files, path) ==
  files[path] # 0

MoveInit ==
  /\ ConversionIdle
  /\ TagsIdle
  /\ musics \in { a \in UNION { [1..n -> MusicPaths] : n \in 1..MaxMusic } :
                     \A i, k \in DOMAIN a : i # k => a[i] # a[k] }
  /\ music_kinds \in [MusicPaths -> {"music", "excluded", "unloadable"}]
  /\ \A s \in MusicPaths : s \notin Range(musics) => music_kinds[s] = "music"
  /\ new_paths \in [MusicPaths -> NewPaths]
  /\ is_dry_run_mode \in BOOLEAN
  /\ move_output \in {"absent", "file", "dir"}
  /\ old_files \in SUBSET NewPaths
  /\ move_output # "dir" => old_files = {}
  /\ music_files = << >>
  /\ src_files = [s \in MusicPaths |-> TRUE]
  /\ dst_files = [d \in NewPaths |-> IF d \in old_files THEN -1 ELSE 0]
  /\ move_pc = "check_output"
  /\ move_i = 0
  /\ move_error = "none"
  /\ move_exit = -1

\* sys.exit(1) after logging.error, lines 279-280 and 285-286; an exception
\* that leaves main ends the process the same way.
MoveExit(error, status) ==
  /\ move_error' = error
  /\ move_exit' = status
  /\ move_pc' = "exited"

\* main, lines 277-280.
MoveCheckOutput ==
  /\ move_pc = "check_output"
  /\ IF move_output = "file"
       THEN MoveExit("not a directory", 1)
       ELSE /\ move_pc' = "load"
            /\ UNCHANGED << move_error, move_exit >>
  /\ UNCHANGED << musics, music_kinds, new_paths, is_dry_run_mode, move_output, old_files,
                  music_files, src_files, dst_files, move_i >>
  /\ UNCHANGED << vars, tag_vars >>

\* main, lines 282-286.
LoadFiles ==
  /\ move_pc = "load"
  /\ LET r == load_files(musics, music_kinds)
     IN  IF r.raised
           THEN /\ MoveExit("FileLoadingError", 1)
                /\ UNCHANGED music_files
           ELSE /\ music_files' = r.files
                /\ move_pc' = "makedirs"
                /\ UNCHANGED << move_error, move_exit >>
  /\ UNCHANGED << musics, music_kinds, new_paths, is_dry_run_mode, move_output, old_files,
                  src_files, dst_files, move_i >>
  /\ UNCHANGED << vars, tag_vars >>

\* move_music_files, line 248.
MoveMakeDirs ==
  /\ move_pc = "makedirs"
  /\ move_output' = "dir"
  /\ move_pc' = "copy"
  /\ move_i' = 1
  /\ UNCHANGED << musics, music_kinds, new_paths, is_dry_run_mode, old_files, music_files,
                  src_files, dst_files, move_error, move_exit >>
  /\ UNCHANGED << vars, tag_vars >>

\* One turn of the loop at lines 250-251: copy_music_file, lines 232-244.  A
\* FileCopyingError leaves move_music_files and is logged by main, lines
\* 291-295, which then returns; an error of shutil.copy leaves main.
CopyMusicFile ==
  /\ move_pc = "copy"
  /\ move_i <= Len(music_files)
  /\ LET music_file == music_files[move_i]
         new_path == new_paths[music_file]
     IN  IF is_dry_run_mode
           THEN /\ move_i' = move_i + 1
                /\ UNCHANGED << dst_files, move_pc, move_error, move_exit >>
         ELSE IF os_path_exists(dst_files, new_path)
           THEN /\ MoveExit("FileCopyingError", 0)
                /\ UNCHANGED << dst_files, move_i >>
         ELSE \E copied \in BOOLEAN :
                IF copied
                  THEN /\ dst_files' = [dst_files EXCEPT ![new_path] = music_file]
                       /\ move_i' = move_i + 1
                       /\ UNCHANGED << move_pc, move_error, move_exit >>
                  ELSE /\ MoveExit("OSError", 1)
                       /\ UNCHANGED << dst_files, move_i >>
  /\ UNCHANGED << musics, music_kinds, new_paths, is_dry_run_mode, move_output, old_files,
                  music_files, src_files >>
  /\ UNCHANGED << vars, tag_vars >>

\* Mutant of EndCopy: the remove loop is entered in dry-run mode too.
EndCopy_RemovesInDryRun ==
  /\ move_pc = "copy"
  /\ move_i > Len(music_files)
  /\ move_pc' = "remove"
  /\ move_i' = 1
  /\ UNCHANGED << move_error, move_exit >>
  /\ UNCHANGED << musics, music_kinds, new_paths, is_dry_run_mode, move_output, old_files,
                  music_files, src_files, dst_files >>
  /\ UNCHANGED << vars, tag_vars >>

\* move_music_files, lines 253-254, once the loop at 250 has ended.
EndCopy ==
  /\ move_pc = "copy"
  /\ move_i > Len(music_files)
  /\ IF is_dry_run_mode
       THEN /\ MoveExit("none", 0)
            /\ UNCHANGED move_i
       ELSE /\ move_pc' = "remove"
            /\ move_i' = 1
            /\ UNCHANGED << move_error, move_exit >>
  /\ UNCHANGED << musics, music_kinds, new_paths, is_dry_run_mode, move_output, old_files,
                  music_files, src_files, dst_files >>
  /\ UNCHANGED << vars, tag_vars >>

\* One turn of the loop at lines 256-257; an error of os.remove leaves main.
RemoveFile ==
  /\ move_pc = "remove"
  /\ move_i <= Len(music_files)
  /\ \E removed \in BOOLEAN :
       IF removed /\ src_files[music_files[move_i]]
         THEN /\ src_files' = [src_files EXCEPT ![music_files[move_i]] = FALSE]
              /\ move_i' = move_i + 1
              /\ UNCHANGED << move_pc, move_error, move_exit >>
         ELSE /\ MoveExit("OSError", 1)
              /\ UNCHANGED << src_files, move_i >>
  /\ UNCHANGED << musics, music_kinds, new_paths, is_dry_run_mode, move_output, old_files,
                  music_files, dst_files >>
  /\ UNCHANGED << vars, tag_vars >>

\* The loop at 256 has ended: move_music_files and main return.
EndRemove ==
  /\ move_pc = "remove"
  /\ move_i > Len(music_files)
  /\ MoveExit("none", 0)
  /\ UNCHANGED << musics, music_kinds, new_paths, is_dry_run_mode, move_output, old_files,
                  music_files, src_files, dst_files, move_i >>
  /\ UNCHANGED << vars, tag_vars >>

MoveNext ==
  \/ MoveCheckOutput
  \/ LoadFiles
  \/ MoveMakeDirs
  \/ CopyMusicFile
  \/ EndCopy
  \/ RemoveFile
  \/ EndRemove

MoveSpec == MoveInit /\ [][MoveNext]_all_vars

\* ===================================================================== claims
\* The batch of a run: the arguments that survive the extension filter.
Batch ==
  SelectSeq(args, LAMBDA p : Lower(p.ext) \notin {".log", ".pdf", ".txt", ".jpg", ".png"})

BatchIds == 1..Len(Batch)

\* The format detected from a file's content, "None" when it is none of the three.
Detected(p) ==
  IF fs[p] \in {"audio/vorbis", "audio/flac", "audio/mp3"} THEN fs[p] ELSE "None"

\* No file has been written to the output directory.
NothingConverted ==
  \A s \in Stems : mp3_files[s] = "absent"

\* The run has ended (the process has exited).
Exited == exit_status # -1

\* Validation passed: convert_for_itunes was called with the batch.
Called == makedirs_calls > 0

\* The indices of the log records that report the outcome of the job of path p.
Outcomes(p, level) ==
  { i \in 1..Len(log) :
      /\ log[i].path = p
      /\ log[i].level = level
      /\ log[i].msg \in {"%s is converted.", "%s cannot be converted: %s"} }

\* C1: no conversion job exists, queued or started, before the single gain
\* calculation of the batch has run to completion, and no job runs while a
\* gain tool is alive.
C1_GainBeforeTranscode ==
  /\ jobs # << >> =>
       /\ Len(gain_calls) = 1
       /\ gain_calls[1].found
       /\ ~gain_running
       /\ gained = Range(Batch)
  /\ gain_running => jobs = << >>

\* C1 witness: a job is running its encoder after the gain tool has exited.
C1_Witness ==
  /\ \E j \in JobIds : jobs[j].pc = "encode"
  /\ Len(gain_calls) = 1
  /\ ~gain_running

\* Some file of the batch has a detected format other than the first file's.
MixedFormats ==
  \E i \in BatchIds : Detected(Batch[i]) # Detected(Batch[1])

\* C2: for a batch of mixed formats no gain tool is ever invoked, no source
\* file is rewritten, no job is ever submitted, nothing is converted, and the
\* run can only end aborted.
C2_MixedFormatsAbort ==
  MixedFormats =>
    /\ gain_calls = << >>
    /\ ~gain_running
    /\ gained = {}
    /\ jobs = << >>
    /\ NothingConverted
    /\ pc \in {"filter", "check_output", "makedirs", "gain", "aborted"}

\* C2 witness: a batch of two existing files of different supported formats
\* has been rejected by get_all_mime_type.
C2_Witness ==
  /\ MixedFormats
  /\ \A i \in BatchIds : Detected(Batch[i]) # "None"
  /\ pc = "aborted"
  /\ Called
  /\ log[Len(log)].msg = "The format of {} is different."

\* Every file of the batch has the same one of the three supported formats.
OneFormat ==
  /\ Len(Batch) > 0
  /\ \A i \in BatchIds : Detected(Batch[i]) # "None" /\ Detected(Batch[i]) = Detected(Batch[1])

\* The gain tool of the fixed table.
TableTool(mime_type) ==
  CASE mime_type = "audio/vorbis" -> "vorbisgain"
    [] mime_type = "audio/flac" -> "metaflac"
    [] mime_type = "audio/mp3" -> "aacgain"

\* calculate_gain has been called and has got past format detection.
GainDispatched ==
  Called /\ pc \notin {"makedirs", "gain"}

\* C3: for a batch of one supported format, once calculate_gain has run there
\* is exactly one gain tool call in the whole run, for the tool of the table,
\* with every path of the batch in that one call; never more than one call.
C3_OneGainCall ==
  /\ Len(gain_calls) <= 1
  /\ (OneFormat /\ GainDispatched) =>
       /\ Len(gain_calls) = 1
       /\ gain_calls[1].tool = TableTool(Detected(Batch[1]))
       /\ gain_calls[1].files = Batch

\* C3 witness: the run of a two-file batch of one format has ended after its
\* gain tool ran.
C3_Witness ==
  /\ OneFormat
  /\ Len(Batch) = 2
  /\ pc = "done"
  /\ Len(gain_calls) = 1
  /\ gain_calls[1].found

\* Path p of the batch got the outcome Success / Failure.
Success(p) == Outcomes(p, "INFO") # {}

Failure(p) == Outcomes(p, "ERROR") # {}

\* C4 as stated: when validation has passed and the run has ended, a batch
\* with an unsupported file A and a file B of a supported format has
\* Success for B and Failure for A.
C4_Original ==
  (Exited /\ Called) =>
    \A a, b \in BatchIds :
      (Detected(Batch[a]) = "None" /\ Detected(Batch[b]) # "None") =>
        Success(Batch[b]) /\ Failure(Batch[a])

\* C4 amended: a batch that holds a file of no supported format is rejected
\* as a whole by the format check of the gain step: no gain tool is invoked,
\* no job is ever submitted, no file gets an outcome and nothing is converted.
C4_UnsupportedAbortsBatch ==
  (\E a \in BatchIds : Detected(Batch[a]) = "None") =>
    /\ gain_calls = << >>
    /\ jobs = << >>
    /\ \A b \in BatchIds : ~Success(Batch[b]) /\ ~Failure(Batch[b])
    /\ NothingConverted
    /\ pc \in {"filter", "check_output", "makedirs", "gain", "aborted"}
    /\ (pc = "aborted" /\ Called) =>
         /\ log[Len(log)].level = "ERROR"
         /\ log[Len(log)].msg \in
              {"The format of {} is unsupported.", "The format of {} is different."}
         /\ exit_status = 0

\* C4 witness: the batch <<B, A>>, B of a supported format and A an existing
\* file of none, has been rejected because of A.
C4_Witness ==
  /\ Len(Batch) = 2
  /\ Detected(Batch[1]) # "None"
  /\ fs[Batch[2]] = "other"
  /\ pc = "aborted"
  /\ Called
  /\ log[Len(log)] =
       LogRecord("ERROR", "The format of {} is unsupported.", Batch[2], "")

\* Gain calculation failed: the gain function was entered and the run ended
\* without reaching the transcode phase.
GainFailed ==
  gain_calls # << >> /\ pc = "aborted"

\* C5 as stated: when gain calculation fails, by a missing tool or a non-zero
\* exit, the run is aborted, the cause is logged, no job is ever started and
\* nothing is converted.
C5_Claim ==
  GainFailed =>
    /\ log[Len(log)].level = "ERROR"
    /\ jobs = << >>
    /\ NothingConverted

\* The number of outcome records in the log.
OutcomeCount ==
  Cardinality({ i \in 1..Len(log) :
                  log[i].msg \in {"%s is converted.", "%s cannot be converted: %s"} })

\* C6 as stated: once the jobs are submitted, the run ends with one outcome
\* logged for every job, and no job's failure leaves convert_for_itunes.
C6_Claim ==
  (Exited /\ jobs # << >>) =>
    /\ OutcomeCount = Len(jobs)
    /\ \A j \in JobIds : jobs[j].yielded
    /\ uncaught = "none"
    /\ pc = "done"

\* The worker count: the processor count, or 1 when it is not detected.
WorkerCount ==
  IF cpu_count = 0 THEN 1 ELSE cpu_count

\* C7: the number of running jobs never exceeds the worker count, which is
\* the size the pool was created with.
C7_BoundedWorkers ==
  /\ Cardinality(RunningJobs) <= WorkerCount
  /\ jobs # << >> => max_workers = WorkerCount

\* C7 witness: every worker is busy while a submitted job waits in the queue.
C7_Witness ==
  /\ Cardinality(RunningJobs) = WorkerCount
  /\ \E j \in JobIds : jobs[j].pc = "queued"

\* C8: once a decoding job has left its transcoder, by success, decode failure
\* or encode failure, no wave file written by that job exists.
C8_TmpRemoved ==
  \A j \in JobIds :
    jobs[j].pc \in {"tag", "done"} => \A t \in TmpNames : tmp_files[t] # j

\* C8 witness: one job ended by a decode failure and another, which decoded
\* into its temporary file, ended by an encode failure.
C8_Witness ==
  \E j, k \in JobIds :
    /\ jobs[j].pc = "done"
    /\ jobs[j].result = "ConversionFailedException"
    /\ jobs[j].cause = "Conversion from Flac to wave is failed."
    /\ jobs[k].pc = "done"
    /\ fs[source_files[k]] = "audio/flac"
    /\ jobs[k].cause = "Conversion from wave to MP3 is failed."

\* C9 as stated: the exit status is failure exactly when the run was aborted
\* in validation or in the gain phase, and a run that submitted its jobs ends
\* Done with a normal exit.
C9_Claim ==
  Exited =>
    /\ (exit_status # 0) <=> (pc = "aborted")
    /\ jobs # << >> => (pc = "done" /\ exit_status = 0)

\* The run was aborted by validation, before anything else was done.
AbortsInValidation ==
  /\ pc \in {"filter", "aborted"}
  /\ pc = "aborted" => exit_status = 1
  /\ makedirs_calls = 0
  /\ pc = "aborted" => log[Len(log)].level = "ERROR"
  /\ gain_calls = << >>
  /\ jobs = << >>

\* C10 as stated: when some input path does not exist, or no path remains
\* after filtering, the run aborts with a failure exit before any gain tool,
\* any makedirs and any job.
C10_Original ==
  ((\E i \in 1..Len(args) : fs[args[i]] = "missing") \/ Len(Batch) = 0) =>
    AbortsInValidation

\* C10 amended: the existence check covers the paths that remain after
\* filtering: when one of those does not exist, or none remains, the run
\* aborts with a failure exit before any gain tool, any makedirs and any job.
C10_FilteredPathsExist ==
  ((\E i \in BatchIds : fs[Batch[i]] = "missing") \/ Len(Batch) = 0) =>
    AbortsInValidation

\* C10 witness: a batch whose second path does not exist has been aborted.
C10_Witness ==
  /\ Len(Batch) = 2
  /\ fs[Batch[1]] # "missing"
  /\ fs[Batch[2]] = "missing"
  /\ pc = "aborted"
  /\ exit_status = 1


\* ------------------------------------------------------- claims on copy_tags
\* copy_tags has run on the destination.
Tagged == tag_runs >= 1

Has(field) == field \in DOMAIN metadata

\* The text of the frame stored under key, << >> when there is none.
FrameText(key) ==
  IF key \in DOMAIN dest_tags THEN dest_tags[key].text ELSE << >>

\* field is copied unchanged to the frame stored under key.
Copied(field, key) ==
  Has(field) => key \in DOMAIN dest_tags /\ dest_tags[key].text = metadata[field]

\* C11 as stated: when the source has both `album artist` and `albumartist`
\* with different values, the TPE2 (BandOrOrchestra) frame copy_tags builds
\* holds the `album artist` value.
C11_Claim ==
  ( /\ Tagged
    /\ Has("album artist")
    /\ Has("albumartist")
    /\ metadata["album artist"] # metadata["albumartist"] )
  => FrameText("TPE2") = metadata["album artist"]

Digits == { "0", "1", "2", "3", "4", "5", "6", "7", "8", "9" }

\* The longest prefix of s made of digits.
RECURSIVE NumericPrefix(_)
NumericPrefix(s) ==
  IF s = << >> \/ Head(s) \notin Digits
    THEN << >>
    ELSE << Head(s) >> \o NumericPrefix(Tail(s))

NoAlias == ~Has("album artist") /\ ~Has("albumartist")

\* C12 as stated: TRCK holds only the numeric prefix of `tracknumber`
\* (3/12 gives 3), title, album and artist are copied unchanged to TIT2, TALB
\* and TPE1, and there is no TPE2 frame when neither alias is present.
C12_Original ==
  Tagged =>
    /\ Has("tracknumber") => FrameText("TRCK") = NumericPrefix(metadata["tracknumber"])
    /\ Copied("title", "TIT2")
    /\ Copied("album", "TALB")
    /\ Copied("artist", "TPE1")
    /\ NoAlias => "TPE2" \notin DOMAIN dest_tags

\* C12: TRCK holds the `tracknumber` value unchanged (3/12 stays 3/12), title,
\* album and artist are copied unchanged to TIT2, TALB and TPE1, and there is
\* no TPE2 frame when neither alias is present.
C12_TagsCopied ==
  Tagged =>
    /\ Copied("tracknumber", "TRCK")
    /\ Copied("title", "TIT2")
    /\ Copied("album", "TALB")
    /\ Copied("artist", "TPE1")
    /\ NoAlias => "TPE2" \notin DOMAIN dest_tags

C12_Witness ==
  /\ Tagged
  /\ Has("title") /\ Has("album") /\ Has("artist") /\ Has("tracknumber")
  /\ metadata["tracknumber"] = << "3", "/", "1", "2" >>
  /\ FrameText("TRCK") = << "3", "/", "1", "2" >>
  /\ FrameText("TIT2") = << "S", "o", "n", "g" >>

\* The values of a function.
Values(f) == { f[x] : x \in DOMAIN f }

\* C13: the tags copy_tags leaves in the destination depend on the source
\* metadata alone: every frame carries a value of the source, none of the
\* frames the destination held before remains, and a second run leaves the
\* frames of the first.
C13_FunctionOfSource ==
  Tagged =>
    /\ \A k \in DOMAIN dest_tags : dest_tags[k].text \in Values(metadata)
    /\ dest_tags = first_tags

C13_Witness ==
  /\ tag_runs >= 2
  /\ prior_tags = OldTags
  /\ Has("album")
  /\ DOMAIN dest_tags = {"TALB"}


\* ------------------------------------------------ claims on the destinations
\* The destination of job j, as the key of mp3_files.
JobDest(j) == get_mp3_file_path(source_files[j], OUTPUT_DIRECTORY).stem

\* No other job of the run has the destination of job j.
OwnDest(j) == \A k \in JobIds : k # j => JobDest(k) # JobDest(j)

\* C14 as stated: after a job that ended in Failure no partial or untagged
\* destination file of that job exists, and a destination file exists at the
\* end of a job only when both the encode step and the tag-write step
\* succeeded.
C14_Claim ==
  \A j \in JobIds :
    (jobs[j].pc = "done" /\ OwnDest(j)) =>
      /\ jobs[j].result = "ConversionFailedException" => mp3_files[JobDest(j)] = "absent"
      /\ mp3_files[JobDest(j)] # "absent" =>
            jobs[j].result = "ok" /\ mp3_files[JobDest(j)] = "tagged"

\* C15 as stated: for each of the three formats a job is reported as Success
\* only after tag translation has been run on its destination.
C15_Claim ==
  \A j \in JobIds :
    (Success(source_files[j]) /\ OwnDest(j)) => mp3_files[JobDest(j)] = "tagged"

\* C16 as stated: the output directory is created exactly once per run, after
\* the gain calculation has completed successfully and before any job starts,
\* and a run that aborts in validation or in the gain phase creates none.
C16_Claim ==
  /\ makedirs_calls <= 1
  /\ makedirs_calls > 0 => gained # {} /\ ~gain_running
  /\ jobs # << >> => makedirs_calls = 1
  /\ pc = "aborted" => makedirs_calls = 0

\* C17 as stated: no two jobs ever use the same temporary decode file path:
\* from obtaining its temporary name until it removes the file, a job is the
\* only one that holds the path.
C17_Claim ==
  \A j, k \in JobIds :
    (j # k /\ HoldsTmp(j) /\ HoldsTmp(k)) => jobs[j].tmp # jobs[k].tmp

\* C18 as stated: no two jobs of one run write the same destination path,
\* also when two inputs have the same basename in different directories or
\* with different extensions: while the encoder of one job writes its
\* destination, no other job encodes to or tags that path.
C18_Claim ==
  \A j, k \in JobIds :
    (j # k /\ jobs[j].pc = "encode" /\ jobs[k].pc \in {"encode", "tag"}) =>
      get_mp3_file_path(source_files[j], OUTPUT_DIRECTORY)
        # get_mp3_file_path(source_files[k], OUTPUT_DIRECTORY)

\* C19 as stated: when every external tool exits and the threads keep running,
\* every run eventually reaches Done or Aborted, and in Done every submitted
\* job has completed.
C19_Claim ==
  <>( /\ pc \in {"done", "aborted"}
      /\ pc = "done" => \A j \in JobIds : jobs[j].pc = "done" )

\* Every run ends: as Done, as Aborted, or with the exception of a job leaving
\* main once every submitted job has completed.
Terminates ==
  <>( /\ pc \in {"done", "aborted", "crashed"}
      /\ pc \in {"done", "crashed"} => \A j \in JobIds : jobs[j].pc = "done" )


\* --------------------------------------------- claims on move_music_files.py
\* The given paths that have been removed.
Removed == { s \in MusicPaths : ~src_files[s] }

\* C20: when not in dry-run mode, a source music file is removed only after
\* every file of the batch has been copied to its new path, a file that
\* existed at a new path before the run is never overwritten, and when a copy
\* is refused because its new path exists no source file is removed.
C20_CopyBeforeRemove ==
  /\ Removed # {} =>
        /\ ~is_dry_run_mode
        /\ \A i \in DOMAIN music_files : dst_files[new_paths[music_files[i]]] = music_files[i]
  /\ \A d \in old_files : dst_files[d] = -1
  /\ move_error = "FileCopyingError" =>
        /\ Removed = {}
        /\ dst_files[new_paths[music_files[move_i]]] # music_files[move_i]

\* The second file of a batch is refused after the first has been copied.
C20_Witness ==
  /\ move_error = "FileCopyingError"
  /\ move_i = 2
  /\ dst_files[new_paths[music_files[1]]] = music_files[1]
  /\ new_paths[music_files[2]] \in old_files
  /\ Removed = {}


\* C21: in dry-run mode no music file is copied and none is removed: every
\* given path still exists and every new path holds what it held before the
\* run, a file that was there or nothing.
C21_DryRunMovesNothing ==
  is_dry_run_mode =>
    /\ Removed = {}
    /\ \A s \in MusicPaths : src_files[s]
    /\ \A d \in NewPaths : dst_files[d] = IF d \in old_files THEN -1 ELSE 0

\* A dry run over two music files has gone through both loops' places and
\* main has returned.
C21_Witness ==
  /\ is_dry_run_mode
  /\ move_pc = "exited"
  /\ move_error = "none"
  /\ move_exit = 0
  /\ Len(music_files) = 2
  /\ move_i = 3

====
